---- MODULE Spec2Model ----
(***************************************************************************)
(* Model of the in-memory graph store of server/db/core:                   *)
(*   MultiMap            (multi_map.py)                                    *)
(*   ReversibleMultiMap  (reversible_multi_map.py), four MultiMaps         *)
(*   Graph               (graph.py), node records and the key index        *)
(*                                                                         *)
(* A Python dict is a function whose DOMAIN is the set of its keys, so     *)
(* that the auto-vivification of collections.defaultdict (a key read with  *)
(* m[key] is created with an empty list) is visible in the state.  An      *)
(* exception that leaves an operation is the outcome "AttributeError" of   *)
(* the call, with the writes made before the raise kept.                   *)
(***************************************************************************)
EXTENDS Integers, Sequences, FiniteSets, TLC

VARIABLES
    logging_level,   \* PhasmaConfig.logging_level handed to the MultiMaps
    from_to,         \* ReversibleMultiMap._from_to._multimap
    from_rel,        \* ReversibleMultiMap._from_rel._multimap
    to_from,         \* ReversibleMultiMap._to_from._multimap
    to_rel,          \* ReversibleMultiMap._to_rel._multimap
    rcall,           \* the last ReversibleMultiMap call and its outcome
    rcalls,          \* number of ReversibleMultiMap calls made so far
    node_keys,       \* Graph._node_keys
    nodes,           \* Graph._nodes: node id -> the dict object stored
    deleted_nodes,   \* Graph._deleted_nodes
    heap,            \* the dict objects: reference -> contents
    issued,          \* the values uuid4() has returned
    gcalls,          \* the Graph calls made so far, with their outcomes
    edge_counts,     \* Graph.edge_counts
    edge_keys,       \* Graph._edge_keys
    related,         \* Graph._related: the edge types it has a map for
    ecalls,          \* the Graph edge calls made so far, with their outcomes
    mm,              \* MultiMap._multimap of a MultiMap used on its own
    mcall            \* the last call made to that MultiMap and its outcome

rmmVars == <<logging_level, from_to, from_rel, to_from, to_rel, rcall, rcalls>>

graphVars == <<node_keys, nodes, deleted_nodes, heap, issued, gcalls>>

edgeVars == <<edge_counts, edge_keys, related, ecalls>>

mmVars == <<mm, mcall>>

vars == <<rmmVars, graphVars, edgeVars, mmVars>>

----------------------------------------------------------------------------
(* Bounds *)

NumIds == 3        \* node ids 0 .. NumIds-1
NumWeights == 2    \* weight ids 0 .. NumWeights-1
MaxRmmCalls == 4   \* calls issued to one ReversibleMultiMap
NumUuids == 3      \* values uuid4() draws from, 1 .. NumUuids
MaxGraphCalls == 3 \* calls issued to one Graph
NumEdgeCounts == 2 \* edge ordinals 0 .. NumEdgeCounts-1
NumEdgeNodes == 2  \* node ids named in edge keys, 1 .. NumEdgeNodes
NumEdgeIds == 2    \* edge ids 1 .. NumEdgeIds
MaxEdgeCalls == 3  \* edge calls issued to one Graph
NumMmKeys == 2     \* keys of the MultiMap used on its own, 1 .. NumMmKeys
NumMmVals == 2     \* its values, 1 .. NumMmVals
MaxMmLen == 3      \* values it holds over all keys

NodeIds == 0 .. (NumIds - 1)
WeightIds == 0 .. (NumWeights - 1)
LoggingLevels == {"None", "info"}
Uuids == 1 .. NumUuids
Labels == {"Person", "City"}
Keys == {"alice", "bob"}
\* the properties argument: left out, a dict the caller keeps, a dict literal
PropsArgs == {"default", "caller", "literal"}
\* edge type strings, as lists of characters
EdgeTypes == {<<"k">>, <<"o">>}
EdgeCounts == 0 .. (NumEdgeCounts - 1)
EdgeNodes == 1 .. NumEdgeNodes
EdgeIds == 1 .. NumEdgeIds
MmKeys == 1 .. NumMmKeys
MmVals == 1 .. NumMmVals

----------------------------------------------------------------------------
(* Python list and dict helpers *)

\* dict(): no keys
EmptyMap == <<>>

\* list.remove(v) on a list that holds v: drops the first occurrence
RemoveFirst(s, v) ==
    LET i == CHOOSE j \in 1 .. Len(s) :
                 s[j] = v /\ \A k \in 1 .. (j - 1) : s[k] # v
    IN  [k \in 1 .. (Len(s) - 1) |-> IF k < i THEN s[k] ELSE s[k + 1]]

Min(a, b) == IF a < b THEN a ELSE b

\* The list without its last element
Front(s) == IF Len(s) = 0 THEN s ELSE SubSeq(s, 1, Len(s) - 1)

\* v in list
InList(s, v) == \E i \in 1 .. Len(s) : s[i] = v

\* defaultdict(list).__getitem__: a missing key is created with []
Vivify(m, key) == IF key \in DOMAIN m THEN m ELSE (key :> <<>>) @@ m

----------------------------------------------------------------------------
(* MultiMap: each operator returns the new _multimap and the outcome *)

\* MultiMap.get: dict.get, None for a missing key (no vivification)
MM_get(m, key) ==
    IF key \in DOMAIN m THEN [none |-> FALSE, vals |-> m[key]]
    ELSE [none |-> TRUE, vals |-> <<>>]

\* MultiMap.contains_key
MM_contains_key(m, key) == key \in DOMAIN m

\* MultiMap.contains_value: False for None and for the empty list
MM_contains_value(m, key, value) ==
    LET g == MM_get(m, key)
    IN  IF (~g.none) /\ Len(g.vals) > 0 THEN InList(g.vals, value) ELSE FALSE

\* MultiMap.__len__: the number of keys
MM_len(m) == Cardinality(DOMAIN m)

\* MultiMap.add_edge refusing a value the key already holds
MM_add_edge_unique(m, key, value) ==
    LET m1 == Vivify(m, key)
    IN  IF InList(m1[key], value) THEN [m |-> m1, ret |-> "True"]
        ELSE [m |-> [m1 EXCEPT ![key] = Append(@, value)], ret |-> "True"]

\* MultiMap.add_edge
MM_add_edge(m, key, value) ==
    LET m1 == Vivify(m, key)
    IN  [m |-> [m1 EXCEPT ![key] = Append(@, value)], ret |-> "True"]

\* MultiMap.remove_edge: the handler of ValueError reads self.logger, an
\* attribute __init__ sets only when config.logging_level is truthy
MM_remove_edge(m, level, key, value) ==
    LET m1 == Vivify(m, key)
    IN  IF InList(m1[key], value)
        THEN [m |-> [m1 EXCEPT ![key] = RemoveFirst(@, value)], ret |-> "True"]
        ELSE IF level = "None"
             THEN [m |-> m1, ret |-> "AttributeError"]
             ELSE [m |-> m1, ret |-> "False"]

\* MultiMap.remove_key emptying the list of the key instead of deleting it
MM_remove_key_emptied(m, level, key) ==
    IF key \in DOMAIN m
    THEN [m |-> [m EXCEPT ![key] = <<>>], ret |-> "True"]
    ELSE IF level = "None"
         THEN [m |-> m, ret |-> "AttributeError"]
         ELSE [m |-> m, ret |-> "False"]

\* MultiMap.remove_key: del on a missing key raises KeyError (no key is
\* created); the handler reads self.logger as that of remove_edge does
MM_remove_key(m, level, key) ==
    IF key \in DOMAIN m
    THEN [m |-> [k \in DOMAIN m \ {key} |-> m[k]], ret |-> "True"]
    ELSE IF level = "None"
         THEN [m |-> m, ret |-> "AttributeError"]
         ELSE [m |-> m, ret |-> "False"]

\* MultiMap.clear
MM_clear(m) == EmptyMap

\* MultiMap.clear_key: returns the values it cleared
MM_clear_key(m, key) ==
    LET m1 == Vivify(m, key)
    IN  IF Len(m1[key]) = 0
        THEN [m |-> m1, ret |-> <<>>]
        ELSE [m |-> [m1 EXCEPT ![key] = <<>>], ret |-> m1[key]]

----------------------------------------------------------------------------
(* ReversibleMultiMap *)

\* ReversibleMultiMap.get_nodes_by_key
get_nodes_by_key(key) == MM_get(from_to, key)

\* ReversibleMultiMap.get_nodes_by_value
get_nodes_by_value(key) == MM_get(to_from, key)

\* ReversibleMultiMap.get_weights_by_key
get_weights_by_key(key) == MM_get(from_rel, key)

\* ReversibleMultiMap.get_weights_by_value
get_weights_by_value(key) == MM_get(to_rel, key)

\* ReversibleMultiMap.get_from_size: len(None) raises TypeError and the
\* handler reads self.logger, which ReversibleMultiMap never sets
get_from_size(from_) ==
    LET g == MM_get(from_to, from_)
    IN  IF g.none THEN [outcome |-> "AttributeError", value |-> 0]
        ELSE [outcome |-> "value", value |-> Len(g.vals)]

\* ReversibleMultiMap.contains_entry: two independent membership tests, of
\* to among the nodes of from_ and of weight among the weights of from_
contains_entry(from_, to, weight) ==
    /\ MM_contains_value(from_to, from_, to)
    /\ MM_contains_value(from_rel, from_, weight)

RCall(op, f, t, w, ret) ==
    [op |-> op, from |-> f, to |-> t, weight |-> w, ret |-> ret]

\* ReversibleMultiMap.__init__ (config is read from the instance, so it is
\* whatever the class was given before construction)
RmmInit ==
    /\ logging_level \in LoggingLevels
    /\ from_to = EmptyMap
    /\ from_rel = EmptyMap
    /\ to_from = EmptyMap
    /\ to_rel = EmptyMap
    /\ rcall = RCall("init", 0, 0, 0, "None")
    /\ rcalls = 0

\* ReversibleMultiMap.add_edge
add_edge(from_, to, weight) ==
    /\ rcalls < MaxRmmCalls
    /\ LET r1 == MM_add_edge(from_to, from_, to)
           r2 == MM_add_edge(from_rel, from_, weight)
           r3 == MM_add_edge(to_from, to, from_)
           r4 == MM_add_edge(to_rel, to, weight)
       IN  /\ from_to' = r1.m
           /\ from_rel' = r2.m
           /\ to_from' = r3.m
           /\ to_rel' = r4.m
           /\ rcall' = RCall("add_edge", from_, to, weight, r4.ret)
    /\ rcalls' = rcalls + 1
    /\ UNCHANGED <<logging_level, graphVars, edgeVars, mmVars>>

\* ReversibleMultiMap.remove_edge: four removals in a row, the results of
\* the first three dropped; a raise ends the call at that removal
remove_edge(from_, to, weight) ==
    /\ rcalls < MaxRmmCalls
    /\ LET r1 == MM_remove_edge(from_to, logging_level, from_, to)
           r2 == MM_remove_edge(from_rel, logging_level, from_, weight)
           r3 == MM_remove_edge(to_from, logging_level, to, from_)
           r4 == MM_remove_edge(to_rel, logging_level, to, weight)
           x1 == r1.ret = "AttributeError"
           x2 == x1 \/ r2.ret = "AttributeError"
           x3 == x2 \/ r3.ret = "AttributeError"
       IN  /\ from_to' = r1.m
           /\ from_rel' = IF x1 THEN from_rel ELSE r2.m
           /\ to_from' = IF x2 THEN to_from ELSE r3.m
           /\ to_rel' = IF x3 THEN to_rel ELSE r4.m
           /\ rcall' = RCall("remove_edge", from_, to, weight,
                             IF x3 THEN "AttributeError" ELSE r4.ret)
    /\ rcalls' = rcalls + 1
    /\ UNCHANGED <<logging_level, graphVars, edgeVars, mmVars>>

\* The loop of clear_key over zip(removed_edges, removed_entries), from
\* position i on; tf and tr are _to_from and _to_rel so far
RECURSIVE ClearLoop(_, _, _, _, _, _)
ClearLoop(tf, tr, edges, entries, key, i) ==
    IF i > Len(edges) \/ i > Len(entries)
    THEN [to_from |-> tf, to_rel |-> tr, raised |-> FALSE]
    ELSE LET r1 == MM_remove_edge(tf, logging_level, entries[i], key)
             r2 == MM_remove_edge(tr, logging_level, entries[i], edges[i])
         IN  IF r1.ret = "AttributeError"
             THEN [to_from |-> r1.m, to_rel |-> tr, raised |-> TRUE]
             ELSE IF r2.ret = "AttributeError"
                  THEN [to_from |-> r1.m, to_rel |-> r2.m, raised |-> TRUE]
                  ELSE ClearLoop(r1.m, r2.m, edges, entries, key, i + 1)

\* ReversibleMultiMap.clear_key
clear_key(key) ==
    /\ rcalls < MaxRmmCalls
    /\ LET c1 == MM_clear_key(from_rel, key)
           removed_edges == c1.ret
           c2 == MM_clear_key(from_to, key)
           removed_entries == c2.ret
           lp == ClearLoop(to_from, to_rel, removed_edges, removed_entries,
                           key, 1)
       IN  IF Len(removed_edges) = 0
           THEN /\ from_rel' = c1.m
                /\ UNCHANGED <<from_to, to_from, to_rel>>
                /\ rcall' = RCall("clear_key", key, 0, 0, "False")
           ELSE /\ from_rel' = c1.m
                /\ from_to' = c2.m
                /\ to_from' = lp.to_from
                /\ to_rel' = lp.to_rel
                /\ rcall' = RCall("clear_key", key, 0, 0,
                                  IF lp.raised THEN "AttributeError"
                                  ELSE "True")
    /\ rcalls' = rcalls + 1
    /\ UNCHANGED <<logging_level, graphVars, edgeVars, mmVars>>

RmmAdd == \E f \in NodeIds, t \in NodeIds, w \in WeightIds : add_edge(f, t, w)

RmmRemove ==
    \E f \in NodeIds, t \in NodeIds, w \in WeightIds : remove_edge(f, t, w)

RmmClearKey == \E k \in NodeIds : clear_key(k)

----------------------------------------------------------------------------
(* Graph: nodes and the key index *)

\* d[k] = v on a dict
Put(d, k, v) == (k :> v) @@ d

\* The dict object a properties argument denotes in call number n: the one
\* default-argument dict of add_node, one dict owned by the caller, or a
\* dict literal evaluated for this call
PropsRef(props, n) ==
    IF props = "default" THEN <<"default", 0>>
    ELSE IF props = "caller" THEN <<"caller", 0>>
    ELSE <<"literal", n>>

\* Contents of a dict object; a literal not yet stored is {}
Deref(ref) == IF ref \in DOMAIN heap THEN heap[ref] ELSE <<>>

GCall(op, label, key, props, outcome, value) ==
    [op |-> op, label |-> label, key |-> key, props |-> props,
     outcome |-> outcome, value |-> value]

\* Graph.__init__
GraphInit ==
    /\ node_keys = <<>>
    /\ nodes = <<>>
    /\ deleted_nodes = <<>>
    /\ heap = (<<"default", 0>> :> <<>>) @@ (<<"caller", 0>> :> ("name" :> "x"))
    /\ issued = {}
    /\ gcalls = <<>>

\* Graph.add_node, duplicate branch left out
add_node_unchecked(label, key, props) ==
    /\ Len(gcalls) < MaxGraphCalls
    /\ \E node_id \in Uuids \ issued :
          LET ref == PropsRef(props, Len(gcalls) + 1)
              p == Put(Put(Put(Deref(ref), "~label", label), "~key", key),
                       "~id", node_id)
          IN  /\ heap' = Put(heap, ref, p)
              /\ nodes' = Put(nodes, node_id, ref)
              /\ node_keys' = Put(node_keys, key, node_id)
              /\ issued' = issued \cup {node_id}
              /\ UNCHANGED deleted_nodes
              /\ gcalls' = Append(gcalls, GCall("add_node", label, key, props,
                                                "value", node_id))
    /\ UNCHANGED <<rmmVars, edgeVars, mmVars>>

\* Graph.add_node with uuid4() returning a value it returned before
add_node_stale_id(label, key, props) ==
    /\ Len(gcalls) < MaxGraphCalls
    /\ IF key \in DOMAIN node_keys
       THEN /\ UNCHANGED <<node_keys, nodes, deleted_nodes, heap, issued>>
            /\ gcalls' = Append(gcalls, GCall("add_node", label, key, props,
                                              "value", -1))
       ELSE LET node_id == 1
                ref == PropsRef(props, Len(gcalls) + 1)
                p == Put(Put(Put(Deref(ref), "~label", label), "~key", key),
                         "~id", node_id)
            IN  /\ heap' = Put(heap, ref, p)
                /\ nodes' = Put(nodes, node_id, ref)
                /\ node_keys' = Put(node_keys, key, node_id)
                /\ issued' = issued \cup {node_id}
                /\ UNCHANGED deleted_nodes
                /\ gcalls' = Append(gcalls, GCall("add_node", label, key,
                                                  props, "value", node_id))
    /\ UNCHANGED <<rmmVars, edgeVars, mmVars>>

\* Graph.add_node
add_node(label, key, props) ==
    /\ Len(gcalls) < MaxGraphCalls
    /\ IF key \in DOMAIN node_keys
       THEN /\ UNCHANGED <<node_keys, nodes, deleted_nodes, heap, issued>>
            /\ gcalls' = Append(gcalls, GCall("add_node", label, key, props,
                                              "value", -1))
       ELSE LET ref == PropsRef(props, Len(gcalls) + 1)
                p0 == Put(Put(Deref(ref), "~label", label), "~key", key)
            IN  IF deleted_nodes = <<>>
                THEN \E node_id \in Uuids \ issued :
                        /\ heap' = Put(heap, ref, Put(p0, "~id", node_id))
                        /\ nodes' = Put(nodes, node_id, ref)
                        /\ node_keys' = Put(node_keys, key, node_id)
                        /\ issued' = issued \cup {node_id}
                        /\ UNCHANGED deleted_nodes
                        /\ gcalls' = Append(gcalls,
                               GCall("add_node", label, key, props,
                                     "value", node_id))
                ELSE \* list.pop() takes the last element; dict has no
                     \* append, so the call ends in AttributeError
                     LET node_id == deleted_nodes[Len(deleted_nodes)]
                     IN  /\ deleted_nodes' = Front(deleted_nodes)
                         /\ heap' = Put(heap, ref, Put(p0, "~id", node_id))
                         /\ UNCHANGED <<nodes, node_keys, issued>>
                         /\ gcalls' = Append(gcalls,
                                GCall("add_node", label, key, props,
                                      "AttributeError", 0))
    /\ UNCHANGED <<rmmVars, edgeVars, mmVars>>

\* Graph.remove_node: the method has a docstring and no statements
remove_node(label, key) ==
    /\ Len(gcalls) < MaxGraphCalls
    /\ gcalls' = Append(gcalls, GCall("remove_node", label, key, "none",
                                      "None", 0))
    /\ UNCHANGED <<node_keys, nodes, deleted_nodes, heap, issued>>
    /\ UNCHANGED <<rmmVars, edgeVars, mmVars>>

\* Graph._get_node_key_id: self._node_keys.get(label) is None or, when the
\* label string is a key of the index, a UUID; neither has a get method
get_node_key_id(label, id) ==
    LET inner == IF label \in DOMAIN node_keys THEN "UUID" ELSE "NoneType"
    IN  IF inner \in {"UUID", "NoneType"}
        THEN [outcome |-> "AttributeError", value |-> 0]
        ELSE [outcome |-> "value", value |-> node_keys[label]]

\* Graph.get_node_id_by_label_and_key
get_node_id_by_label_and_key(label, key) ==
    /\ Len(gcalls) < MaxGraphCalls
    /\ LET r == get_node_key_id(label, key)
       IN  gcalls' = Append(gcalls, GCall("get_node_id_by_label_and_key",
                                          label, key, "none",
                                          r.outcome, r.value))
    /\ UNCHANGED <<node_keys, nodes, deleted_nodes, heap, issued>>
    /\ UNCHANGED <<rmmVars, edgeVars, mmVars>>

\* Graph.get_node_by_label_and_key: a found record is returned as its id
get_node_by_label_and_key(label, key) ==
    /\ Len(gcalls) < MaxGraphCalls
    /\ LET r == get_node_key_id(label, key)
           out == IF r.outcome = "AttributeError" THEN r
                  ELSE IF r.value = -1 \/ r.value \notin DOMAIN nodes
                       THEN [outcome |-> "None", value |-> 0]
                       ELSE r
       IN  gcalls' = Append(gcalls, GCall("get_node_by_label_and_key",
                                          label, key, "none",
                                          out.outcome, out.value))
    /\ UNCHANGED <<node_keys, nodes, deleted_nodes, heap, issued>>
    /\ UNCHANGED <<rmmVars, edgeVars, mmVars>>

GAddNode ==
    \E label \in Labels, key \in Keys, props \in PropsArgs :
        add_node(label, key, props)

GRemoveNode == \E label \in Labels, key \in Keys : remove_node(label, key)

GGetNodeId ==
    \E label \in Labels, key \in Keys :
        get_node_id_by_label_and_key(label, key)

GGetNode ==
    \E label \in Labels, key \in Keys : get_node_by_label_and_key(label, key)

----------------------------------------------------------------------------
(* Graph: edge keys, edge counts and edge types *)

\* str(n) of a one-digit number, as a list of characters
Digits(n) ==
    << <<"0", "1", "2", "3", "4", "5", "6", "7", "8", "9">>[n + 1] >>

\* Graph._derive_edge_key: f"{edge_type}:{count}"
derive_edge_key(edge_type, count) == edge_type \o <<":">> \o Digits(count)

\* Graph._derive_edge_subkey: f"{left_node}:{right_node}"
derive_edge_subkey(left_node, right_node) ==
    Digits(left_node) \o <<":">> \o Digits(right_node)

ECall(op, edge_type, count, left, right, id, outcome, value, types) ==
    [op |-> op, type |-> edge_type, count |-> count, left |-> left,
     right |-> right, id |-> id, outcome |-> outcome, value |-> value,
     types |-> types]

\* Graph.__init__, the edge fields
EdgeInit ==
    /\ edge_counts = <<>>
    /\ edge_keys = <<>>
    /\ related = {}
    /\ ecalls = <<>>

\* Graph._add_edge_key_id: the entry of the edge key is replaced by a dict
\* holding the one subkey
add_edge_key_id(edge_type, count, left_node, right_node, id) ==
    /\ Len(ecalls) < MaxEdgeCalls
    /\ LET edge_key == derive_edge_key(edge_type, count)
       IN  edge_keys' = Put(edge_keys, edge_key,
                            derive_edge_subkey(left_node, right_node) :> id)
    /\ ecalls' = Append(ecalls, ECall("_add_edge_key_id", edge_type, count,
                                      left_node, right_node, id,
                                      "None", 0, {}))
    /\ UNCHANGED <<edge_counts, related>>
    /\ UNCHANGED <<rmmVars, graphVars, mmVars>>

\* Graph._get_edge_key_id: self._edge_keys[edge_key] creates a missing
\* entry (defaultdict); dict.get gives None for a missing subkey
get_edge_key_id(edge_type, count, left_node, right_node) ==
    /\ Len(ecalls) < MaxEdgeCalls
    /\ LET edge_key == derive_edge_key(edge_type, count)
           subkey == derive_edge_subkey(left_node, right_node)
           ek == IF edge_key \in DOMAIN edge_keys THEN edge_keys
                 ELSE Put(edge_keys, edge_key, <<>>)
           found == subkey \in DOMAIN ek[edge_key]
       IN  /\ edge_keys' = ek
           /\ ecalls' = Append(ecalls,
                  ECall("_get_edge_key_id", edge_type, count, left_node,
                        right_node, 0,
                        IF found THEN "value" ELSE "None",
                        IF found THEN ek[edge_key][subkey] ELSE 0, {}))
    /\ UNCHANGED <<edge_counts, related>>
    /\ UNCHANGED <<rmmVars, graphVars, mmVars>>

\* Graph.get_edge_type_count: dict.get, None for a type without a count
get_edge_type_count(edge_type) ==
    /\ Len(ecalls) < MaxEdgeCalls
    /\ LET found == edge_type \in DOMAIN edge_counts
       IN  ecalls' = Append(ecalls,
               ECall("get_edge_type_count", edge_type, 0, 0, 0, 0,
                     IF found THEN "value" ELSE "None",
                     IF found THEN edge_counts[edge_type] ELSE 0, {}))
    /\ UNCHANGED <<edge_counts, edge_keys, related>>
    /\ UNCHANGED <<rmmVars, graphVars, mmVars>>

\* Graph.get_edge_types: set(self._related.keys())
get_edge_types ==
    /\ Len(ecalls) < MaxEdgeCalls
    /\ ecalls' = Append(ecalls, ECall("get_edge_types", <<>>, 0, 0, 0, 0,
                                      "types", 0, related))
    /\ UNCHANGED <<edge_counts, edge_keys, related>>
    /\ UNCHANGED <<rmmVars, graphVars, mmVars>>

EAddEdgeKeyId ==
    \E t \in EdgeTypes, c \in EdgeCounts, l \in EdgeNodes, r \in EdgeNodes,
       id \in EdgeIds : add_edge_key_id(t, c, l, r, id)

EGetEdgeKeyId ==
    \E t \in EdgeTypes, c \in EdgeCounts, l \in EdgeNodes, r \in EdgeNodes :
        get_edge_key_id(t, c, l, r)

EGetEdgeTypeCount == \E t \in EdgeTypes : get_edge_type_count(t)

EGetEdgeTypes == get_edge_types

----------------------------------------------------------------------------
(* Graph: removal from the key index, and clear *)

\* node keys handed to the key index: a key may be any string, the string
\* of a label included
IndexKeys == Keys \cup {"Person"}

\* Graph._remove_node_key_id: the entry deleted is the one whose key is the
\* label string; the id argument is not read
remove_node_key_id(label, id) ==
    /\ Len(gcalls) < MaxGraphCalls
    /\ node_keys' = IF label \in DOMAIN node_keys
                    THEN [k \in DOMAIN node_keys \ {label} |-> node_keys[k]]
                    ELSE node_keys
    /\ gcalls' = Append(gcalls, GCall("_remove_node_key_id", label, id,
                                      "none", "None", 0))
    /\ UNCHANGED <<nodes, deleted_nodes, heap, issued>>
    /\ UNCHANGED <<rmmVars, edgeVars, mmVars>>

\* Graph.clear: clears _node_keys, _nodes, _edge_keys, _edges and _related,
\* then reads self._edge_counts, an attribute __init__ never sets (it sets
\* edge_counts), so the call ends in AttributeError with the structures
\* after it untouched
clear ==
    /\ Len(ecalls) < MaxEdgeCalls
    /\ node_keys' = <<>>
    /\ nodes' = <<>>
    /\ edge_keys' = <<>>
    /\ related' = {}
    /\ UNCHANGED <<edge_counts, deleted_nodes>>
    /\ ecalls' = Append(ecalls, ECall("clear", <<>>, 0, 0, 0, 0,
                                      "AttributeError", 0, {}))
    /\ UNCHANGED <<heap, issued, gcalls>>
    /\ UNCHANGED <<rmmVars, mmVars>>

GAddNodeAnyKey ==
    \E label \in Labels, key \in IndexKeys, props \in PropsArgs :
        add_node(label, key, props)

GRemoveNodeKeyId ==
    \E label \in Labels, id \in IndexKeys : remove_node_key_id(label, id)

GClear == clear

----------------------------------------------------------------------------
(* A MultiMap used on its own *)

MCall(op, key, value, ret, vals) ==
    [op |-> op, key |-> key, value |-> value, ret |-> ret, vals |-> vals]

\* MultiMap.__init__
MmInit ==
    /\ mm = EmptyMap
    /\ mcall = MCall("init", 0, 0, "None", <<>>)

\* Sum of the lengths of the lists of the keys ks of a map
RECURSIVE SumLen(_, _)
SumLen(m, ks) ==
    IF ks = {} THEN 0
    ELSE LET k == CHOOSE x \in ks : TRUE
         IN  Len(m[k]) + SumLen(m, ks \ {k})

\* Number of values a map holds
TotalLen(m) == SumLen(m, DOMAIN m)

\* mm.add_edge(key, value)
MmAddEdge ==
    \E key \in MmKeys, value \in MmVals :
        /\ TotalLen(mm) < MaxMmLen
        /\ LET r == MM_add_edge(mm, key, value)
           IN  /\ mm' = r.m
               /\ mcall' = MCall("add_edge", key, value, r.ret, <<>>)
        /\ UNCHANGED <<rmmVars, graphVars, edgeVars>>

\* mm.remove_edge(key, value)
MmRemoveEdge ==
    \E key \in MmKeys, value \in MmVals :
        /\ LET r == MM_remove_edge(mm, logging_level, key, value)
           IN  /\ mm' = r.m
               /\ mcall' = MCall("remove_edge", key, value, r.ret, <<>>)
        /\ UNCHANGED <<rmmVars, graphVars, edgeVars>>

\* mm.remove_key(key)
MmRemoveKey ==
    \E key \in MmKeys :
        /\ LET r == MM_remove_key(mm, logging_level, key)
           IN  /\ mm' = r.m
               /\ mcall' = MCall("remove_key", key, 0, r.ret, <<>>)
        /\ UNCHANGED <<rmmVars, graphVars, edgeVars>>

\* mm.clear_key(key): the outcome is a list
MmClearKey ==
    \E key \in MmKeys :
        /\ LET r == MM_clear_key(mm, key)
           IN  /\ mm' = r.m
               /\ mcall' = MCall("clear_key", key, 0, "list", r.ret)
        /\ UNCHANGED <<rmmVars, graphVars, edgeVars>>

\* mm.clear()
MmClear ==
    /\ mm' = MM_clear(mm)
    /\ mcall' = MCall("clear", 0, 0, "None", <<>>)
    /\ UNCHANGED <<rmmVars, graphVars, edgeVars>>

Init == RmmInit /\ GraphInit /\ EdgeInit /\ MmInit

NextRmm == RmmAdd \/ RmmRemove \/ RmmClearKey

SpecRmm == Init /\ [][NextRmm]_vars

NextGraph == GAddNode \/ GRemoveNode \/ GGetNodeId \/ GGetNode

SpecGraph == Init /\ [][NextGraph]_vars

NextEdges ==
    \/ EAddEdgeKeyId
    \/ EGetEdgeKeyId
    \/ EGetEdgeTypeCount
    \/ EGetEdgeTypes
    \/ GClear

SpecEdges == Init /\ [][NextEdges]_vars

NextIndex == GAddNodeAnyKey \/ GRemoveNodeKeyId \/ GClear

SpecIndex == Init /\ [][NextIndex]_vars

NextMm == MmAddEdge \/ MmRemoveEdge \/ MmRemoveKey \/ MmClearKey \/ MmClear

SpecMm == Init /\ [][NextMm]_vars

----------------------------------------------------------------------------
(* Reading the adjacency index *)

\* The values of a key, [] for a key the map does not hold
Vals(m, key) == IF key \in DOMAIN m THEN m[key] ELSE <<>>

\* Number of positions at which a node list and its weight list, read side
\* by side as zip() reads them, hold node n with weight w
CountIn(nodeList, weightList, n, w) ==
    Cardinality({i \in 1 .. Min(Len(nodeList), Len(weightList)) :
                     nodeList[i] = n /\ weightList[i] = w})

\* Entries f -> t with weight w read from the forward maps
FwdCount(f, t, w) == CountIn(Vals(from_to, f), Vals(from_rel, f), t, w)

\* Entries f -> t with weight w read from the reverse maps
RevCount(f, t, w) == CountIn(Vals(to_from, t), Vals(to_rel, t), f, w)

\* key has an outgoing / an incoming edge
IsSource(key) == Len(Vals(from_to, key)) > 0
IsTarget(key) == Len(Vals(to_from, key)) > 0

\* key is referenced nowhere in the four maps
ClearedEverywhere(key) ==
    /\ Vals(from_to, key) = <<>>
    /\ Vals(from_rel, key) = <<>>
    /\ Vals(to_from, key) = <<>>
    /\ Vals(to_rel, key) = <<>>
    /\ \A k \in NodeIds : ~InList(Vals(from_to, k), key)
    /\ \A k \in NodeIds : ~InList(Vals(to_from, k), key)

\* The value lists of the four maps
AllVals ==
    [k \in NodeIds |-> <<Vals(from_to, k), Vals(from_rel, k),
                         Vals(to_from, k), Vals(to_rel, k)>>]

----------------------------------------------------------------------------
(* Claims on the adjacency index *)

\* C1: after any sequence of add_edge, remove_edge and clear_key calls the
\* multiset of (from, to, w) entries read from the forward maps equals the
\* multiset read from the reverse maps.
C1_ForwardReverseSymmetric ==
    \A f \in NodeIds, t \in NodeIds, w \in WeightIds :
        FwdCount(f, t, w) = RevCount(f, t, w)

\* C2: a clear_key(id) issued when id is both a source of some edges and a
\* target of others leaves id with no values in any of the four maps and in
\* no other key's value list of the forward-node or reverse-node map.
C2_ClearKeyClearsAllFour ==
    [][\A id \in NodeIds :
          (/\ rcall'.op = "clear_key"
           /\ rcall'.from = id
           /\ IsSource(id)
           /\ IsTarget(id))
          => ClearedEverywhere(id)']_vars

\* C3: a remove_edge(left, right, weight) issued when no entry
\* left -> right with that weight is recorded leaves the value lists of all
\* four maps as they were (no partial removal).
C3_FailedRemoveChangesNothing ==
    [][(/\ rcall'.op = "remove_edge"
        /\ FwdCount(rcall'.from, rcall'.to, rcall'.weight) = 0)
       => AllVals' = AllVals]_vars

\* C4: add_edge(A, B, w) followed by the matching remove_edge(A, B, w), with
\* no other A-B edge present, leaves neither direction holding the pair and
\* the entries of the index as they were before the add: the (to, weight)
\* entries of A and the (from, weight) entries of B are those read before
\* the add (the lists without the element the add appended), and no other
\* key's lists differ.
C4_AddRemoveRoundTrip ==
    [][(/\ rcall.op = "add_edge"
        /\ rcall'.op = "remove_edge"
        /\ rcall'.from = rcall.from
        /\ rcall'.to = rcall.to
        /\ rcall'.weight = rcall.weight
        /\ ~InList(Front(from_to[rcall.from]), rcall.to)
        /\ ~InList(Front(to_from[rcall.to]), rcall.from))
       => LET A == rcall.from
              B == rcall.to
          IN  /\ ~InList(Vals(from_to', A), B)
              /\ ~InList(Vals(to_from', B), A)
              /\ \A n \in NodeIds, w \in WeightIds :
                    /\ CountIn(Vals(from_to', A), Vals(from_rel', A), n, w)
                         = CountIn(Front(from_to[A]), Front(from_rel[A]), n, w)
                    /\ CountIn(Vals(to_from', B), Vals(to_rel', B), n, w)
                         = CountIn(Front(to_from[B]), Front(to_rel[B]), n, w)
              /\ \A k \in NodeIds \ {A} :
                    /\ Vals(from_to', k) = Vals(from_to, k)
                    /\ Vals(from_rel', k) = Vals(from_rel, k)
              /\ \A k \in NodeIds \ {B} :
                    /\ Vals(to_from', k) = Vals(to_from, k)
                    /\ Vals(to_rel', k) = Vals(to_rel, k)]_vars

\* The first half of C4 taken alone: right after add_edge(A, B, w) the
\* out-neighbours of A contain B and the in-neighbours of B contain A.
C4_AddVisibleBothWays ==
    rcall.op = "add_edge" =>
        /\ InList(get_nodes_by_key(rcall.from).vals, rcall.to)
        /\ InList(get_nodes_by_value(rcall.to).vals, rcall.from)

----------------------------------------------------------------------------
(* Reading the Graph and its call history *)

\* The call made last
LastCall == gcalls[Len(gcalls)]

\* c is an add_node call that returned a node id
Succeeded(c) == c.op = "add_node" /\ c.outcome = "value" /\ c.value # -1

\* Some call before position n was a successful add_node(label, key, _)
AddedBefore(n, label, key) ==
    \E j \in 1 .. (n - 1) :
        Succeeded(gcalls[j]) /\ gcalls[j].label = label /\ gcalls[j].key = key

\* The ids the key index resolves to
LiveIds == {node_keys[k] : k \in DOMAIN node_keys}

\* The ids in the released list
ReleasedIds == {deleted_nodes[i] : i \in 1 .. Len(deleted_nodes)}

\* The record stored under a node id
Record(id) == heap[nodes[id]]

----------------------------------------------------------------------------
(* Claims on the Graph *)

\* C5: an add_node(label, key, _) issued after a successful add_node with the
\* same label and key returns -1 (DuplicateKey) and leaves the node records,
\* the key index and the released ids as they were.
C5_DuplicateAddRejected ==
    [][(/\ Len(gcalls') = Len(gcalls) + 1
        /\ gcalls'[Len(gcalls')].op = "add_node"
        /\ AddedBefore(Len(gcalls'), gcalls'[Len(gcalls')].label,
                       gcalls'[Len(gcalls')].key))
       => /\ gcalls'[Len(gcalls')].outcome = "value"
          /\ gcalls'[Len(gcalls')].value = -1
          /\ nodes' = nodes
          /\ heap' = heap
          /\ node_keys' = node_keys
          /\ deleted_nodes' = deleted_nodes]_vars

\* Witness of C5: a second add_node of an added (label, key) has returned.
C5_Witness ==
    /\ Len(gcalls) >= 2
    /\ LastCall.op = "add_node"
    /\ LastCall.value = -1
    /\ AddedBefore(Len(gcalls), LastCall.label, LastCall.key)

\* C6: after any sequence of add_node calls every node created still
\* resolves from its key to its own id, and the record stored under that id
\* carries the ~label, ~key and ~id it was created with.
C6_RecordsKeepIdentity ==
    \A j \in 1 .. Len(gcalls) :
        Succeeded(gcalls[j]) =>
            LET c == gcalls[j]
            IN  /\ c.key \in DOMAIN node_keys
                /\ node_keys[c.key] = c.value
                /\ c.value \in DOMAIN nodes
                /\ Record(c.value)["~label"] = c.label
                /\ Record(c.value)["~key"] = c.key
                /\ Record(c.value)["~id"] = c.value

\* C7: add_node(label, key, _) returns a node id whenever no successful
\* add_node with that same (label, key) pair came before, also when another
\* label already uses the key.
C7_KeyUniquePerLabel ==
    (/\ Len(gcalls) >= 1
     /\ LastCall.op = "add_node"
     /\ ~AddedBefore(Len(gcalls), LastCall.label, LastCall.key))
    => Succeeded(LastCall)

\* C8: after add_node(label, key, _) returned id, both lookups by
\* (label, key) return that id (the record stored under it).
C8_LookupRoundTrip ==
    \A n \in 1 .. Len(gcalls) :
        (/\ gcalls[n].op \in {"get_node_id_by_label_and_key",
                              "get_node_by_label_and_key"}
         /\ AddedBefore(n, gcalls[n].label, gcalls[n].key))
        => /\ gcalls[n].outcome = "value"
           /\ \E j \in 1 .. (n - 1) :
                 /\ Succeeded(gcalls[j])
                 /\ gcalls[j].label = gcalls[n].label
                 /\ gcalls[j].key = gcalls[n].key
                 /\ gcalls[j].value = gcalls[n].value

\* The second half of C8 taken alone: a lookup of a (label, key) that was
\* never added returns the not-found outcome instead of failing.
C8_LookupOfAbsentNotFound ==
    \A n \in 1 .. Len(gcalls) :
        (/\ gcalls[n].op \in {"get_node_id_by_label_and_key",
                              "get_node_by_label_and_key"}
         /\ ~AddedBefore(n, gcalls[n].label, gcalls[n].key))
        => \/ gcalls[n].outcome = "None"
           \/ gcalls[n].outcome = "value" /\ gcalls[n].value = -1

\* C9: after add_node -> remove_node of that node -> add_node, the third
\* call returns the id the second released, the id the first returned.
C9_ReleasedIdReused ==
    \A j \in 1 .. (Len(gcalls) - 2) :
        (/\ Succeeded(gcalls[j])
         /\ gcalls[j + 1].op = "remove_node"
         /\ gcalls[j + 1].label = gcalls[j].label
         /\ gcalls[j + 1].key = gcalls[j].key
         /\ gcalls[j + 2].op = "add_node")
        => /\ gcalls[j + 2].outcome = "value"
           /\ gcalls[j + 2].value = gcalls[j].value

C11_RemoveNodeCompletes ==
    (/\ Len(gcalls) >= 2
     /\ LastCall.op = "remove_node"
     /\ AddedBefore(Len(gcalls), LastCall.label, LastCall.key))
    => /\ LastCall.outcome = "True"
       /\ LastCall.key \notin DOMAIN node_keys
       /\ \A j \in 1 .. (Len(gcalls) - 1) :
             (/\ Succeeded(gcalls[j])
              /\ gcalls[j].label = LastCall.label
              /\ gcalls[j].key = LastCall.key)
             => /\ gcalls[j].value \notin DOMAIN nodes
                /\ gcalls[j].value \in ReleasedIds

----------------------------------------------------------------------------
(* Claims on edge counts and edge types *)

\* The edge calls before position n that registered an edge of a type and
\* were not followed by a clear before n
EdgesAdded(n, edge_type) ==
    {j \in 1 .. (n - 1) :
        /\ ecalls[j].op = "_add_edge_key_id"
        /\ ecalls[j].type = edge_type
        /\ \A i \in (j + 1) .. (n - 1) : ecalls[i].op # "clear"}

\* C12: the count get_edge_type_count(T) reports equals the number of live
\* edges of type T: N after N creations of type T (no count, or 0, being
\* accepted for N = 0).
C12_EdgeTypeCountMatches ==
    \A n \in 1 .. Len(ecalls) :
        ecalls[n].op = "get_edge_type_count" =>
            LET N == Cardinality(EdgesAdded(n, ecalls[n].type))
            IN  \/ ecalls[n].outcome = "value" /\ ecalls[n].value = N
                \/ ecalls[n].outcome = "None" /\ N = 0

\* C13: get_edge_types() returns exactly the edge types that have at least
\* one live edge.
C13_EdgeTypesAreLiveTypes ==
    \A n \in 1 .. Len(ecalls) :
        ecalls[n].op = "get_edge_types" =>
            ecalls[n].types = {t \in EdgeTypes : EdgesAdded(n, t) # {}}

\* The half of C13 about types never added, taken alone: a type that was
\* only looked up is not in the set get_edge_types() returns.
C13_LookedUpTypesNotListed ==
    \A n \in 1 .. Len(ecalls) :
        ecalls[n].op = "get_edge_types" =>
            \A t \in ecalls[n].types : EdgesAdded(n, t) # {}

----------------------------------------------------------------------------
(* Claims on the MultiMap *)

\* Every key but key has the same presence and the same list in m1 and m2
OtherKeysSame(m1, m2, key) ==
    \A k \in MmKeys \ {key} : MM_get(m1, k) = MM_get(m2, k)

\* C14: MultiMap.add_edge(key, value) returns true and appends value at the
\* end of key's collection, keeping the earlier values in their order and
\* allowing duplicates; the collections of all other keys are unchanged.
C14_AddAppends ==
    [][mcall'.op = "add_edge"
       => /\ mcall'.ret = "True"
          /\ MM_contains_key(mm', mcall'.key)
          /\ mm'[mcall'.key] = Append(Vals(mm, mcall'.key), mcall'.value)
          /\ OtherKeysSame(mm, mm', mcall'.key)]_vars

\* Witness of C14: a value was added to a key that already held it behind
\* another value, while another key holds values too.
C14_Witness ==
    /\ mcall.op = "add_edge"
    /\ Len(Vals(mm, mcall.key)) = 3
    /\ mm[mcall.key][1] = mcall.value
    /\ mm[mcall.key][2] # mcall.value
    /\ mm[mcall.key][3] = mcall.value

\* C15: MultiMap.remove_edge(key, value) removes the first occurrence of
\* value and returns true, the key staying present; when the key is absent
\* or does not hold the value it returns false and leaves the map as it
\* was, creating no key.
C15_RemoveEdgeFirstOrNothing ==
    [][mcall'.op = "remove_edge"
       => IF InList(Vals(mm, mcall'.key), mcall'.value)
          THEN /\ mcall'.ret = "True"
               /\ MM_contains_key(mm', mcall'.key)
               /\ mm'[mcall'.key] = RemoveFirst(mm[mcall'.key], mcall'.value)
               /\ OtherKeysSame(mm, mm', mcall'.key)
          ELSE /\ mcall'.ret = "False"
               /\ mm' = mm]_vars

\* The half of C15 about a value the key holds, taken alone.
C15_RemoveEdgeOfPresentValue ==
    [][(/\ mcall'.op = "remove_edge"
        /\ InList(Vals(mm, mcall'.key), mcall'.value))
       => /\ mcall'.ret = "True"
          /\ MM_contains_key(mm', mcall'.key)
          /\ mm'[mcall'.key] = RemoveFirst(mm[mcall'.key], mcall'.value)
          /\ OtherKeysSame(mm, mm', mcall'.key)]_vars

C17_ClearKeyKeepsKeySet ==
    [][mcall'.op = "clear_key"
       => /\ mcall'.ret = "list"
          /\ mcall'.vals = Vals(mm, mcall'.key)
          /\ OtherKeysSame(mm, mm', mcall'.key)
          /\ IF MM_contains_key(mm, mcall'.key)
             THEN /\ MM_contains_key(mm', mcall'.key)
                  /\ mm'[mcall'.key] = <<>>
             ELSE /\ ~MM_contains_key(mm', mcall'.key)
                  /\ MM_len(mm') = MM_len(mm)]_vars

\* The half of C17 about a key that is present, taken alone.
C17_ClearKeyOfPresentKey ==
    [][(mcall'.op = "clear_key" /\ MM_contains_key(mm, mcall'.key))
       => /\ mcall'.ret = "list"
          /\ mcall'.vals = mm[mcall'.key]
          /\ MM_contains_key(mm', mcall'.key)
          /\ mm'[mcall'.key] = <<>>
          /\ \A v \in MmVals : ~MM_contains_value(mm', mcall'.key, v)
          /\ OtherKeysSame(mm, mm', mcall'.key)]_vars

\* C18: a MultiMap built with logging_level None returns the same results
\* and reaches the same state as one built with a log level, for every
\* operation on every reachable map, failing operations included.
C18_LoggingLevelChangesNothing ==
    /\ \A k \in MmKeys, v \in MmVals :
          MM_remove_edge(mm, "None", k, v) = MM_remove_edge(mm, "info", k, v)
    /\ \A k \in MmKeys :
          MM_remove_key(mm, "None", k) = MM_remove_key(mm, "info", k)

\* The sentence of C18 on get_from_size, taken alone: the size of an absent
\* node is 0.
C18_FromSizeOfAbsentIsZero ==
    \A n \in NodeIds :
        /\ get_from_size(n).outcome = "value"
        /\ get_nodes_by_key(n).none => get_from_size(n).value = 0

----------------------------------------------------------------------------
(* Claims on the pairing of the adjacency lists *)

\* C19: after any sequence of add_edge, remove_edge and clear_key calls, for
\* every node id the forward node list and the forward weight list have the
\* same length, position i of the one belonging with position i of the
\* other, and so do the reverse node list and the reverse weight list.
C19_ListsStayParallel ==
    \A k \in NodeIds :
        /\ Len(Vals(from_to, k)) = Len(Vals(from_rel, k))
        /\ Len(Vals(to_from, k)) = Len(Vals(to_rel, k))

\* C20: clear_key(id) returns false only when id has no adjacency at all: on
\* an id with no outgoing edge that is the target of at least one edge it
\* returns true and removes the incoming edges.
C20_ClearKeyOfTargetOnly ==
    [][\A id \in NodeIds :
          (/\ rcall'.op = "clear_key"
           /\ rcall'.from = id
           /\ ~IsSource(id)
           /\ IsTarget(id))
          => /\ rcall'.ret = "True"
             /\ ~IsTarget(id)'
             /\ \A k \in NodeIds : ~InList(Vals(from_to', k), id)]_vars

----------------------------------------------------------------------------
(* Claims on the membership test of the adjacency index *)

\* C21: contains_entry(from, to, weight) is true exactly when an edge
\* from -> to with that weight is recorded: it is false when from reaches
\* to only with other weights and carries the weight only on edges to other
\* nodes, and false once the edge has been removed.
C21_ContainsEntryExact ==
    \A f \in NodeIds, t \in NodeIds, w \in WeightIds :
        contains_entry(f, t, w) <=> FwdCount(f, t, w) > 0

\* The half of C21 that needs no pairing of node and weight: an entry read
\* from the forward lists is reported.
C21_RecordedEntryReported ==
    \A f \in NodeIds, t \in NodeIds, w \in WeightIds :
        FwdCount(f, t, w) > 0 => contains_entry(f, t, w)

----------------------------------------------------------------------------
(* Claims on the edge key index *)

\* The calls before position n that registered an id under the combination
\* call n names, and were not followed by a clear before n
RegisteredBefore(n) ==
    {j \in 1 .. (n - 1) :
        /\ ecalls[j].op = "_add_edge_key_id"
        /\ ecalls[j].type = ecalls[n].type
        /\ ecalls[j].count = ecalls[n].count
        /\ ecalls[j].left = ecalls[n].left
        /\ ecalls[j].right = ecalls[n].right
        /\ \A i \in (j + 1) .. (n - 1) : ecalls[i].op # "clear"}

\* The largest member of a non-empty set of positions
Latest(S) == CHOOSE j \in S : \A i \in S : i <= j

\* C22: parallel edges are independently addressable: an id registered under
\* a (type, ordinal, left, right) combination is what a lookup of that
\* combination returns, whatever was registered under other combinations
\* since, the same type and ordinal with another (left, right) pair
\* included.
C22_ParallelEdgesResolve ==
    \A n \in 1 .. Len(ecalls) :
        (ecalls[n].op = "_get_edge_key_id" /\ RegisteredBefore(n) # {}) =>
            /\ ecalls[n].outcome = "value"
            /\ ecalls[n].value = ecalls[Latest(RegisteredBefore(n))].id

\* C22 for combinations of different edge keys only: a lookup returns the
\* id registered last under its (type, ordinal) when that registration named
\* its (left, right) pair.
C22_LastOfEdgeKeyResolves ==
    \A n \in 1 .. Len(ecalls) :
        ecalls[n].op = "_get_edge_key_id" =>
            LET same == {j \in 1 .. (n - 1) :
                            /\ ecalls[j].op = "_add_edge_key_id"
                            /\ ecalls[j].type = ecalls[n].type
                            /\ ecalls[j].count = ecalls[n].count
                            /\ \A i \in (j + 1) .. (n - 1) :
                                  ecalls[i].op # "clear"}
            IN  (/\ same # {}
                 /\ ecalls[Latest(same)].left = ecalls[n].left
                 /\ ecalls[Latest(same)].right = ecalls[n].right)
                => /\ ecalls[n].outcome = "value"
                   /\ ecalls[n].value = ecalls[Latest(same)].id

----------------------------------------------------------------------------
(* Claims on the removal from the key index and on clear *)

\* The last Graph call, made by the step
Removed(label, id) ==
    /\ Len(gcalls') = Len(gcalls) + 1
    /\ gcalls'[Len(gcalls')].op = "_remove_node_key_id"
    /\ gcalls'[Len(gcalls')].label = label
    /\ gcalls'[Len(gcalls')].key = id

\* C23: removing the key-index entry of a node (label, key) removes that
\* entry and only that entry: every other node of the index, those of the
\* same label included, keeps its entry and its id.
C23_RemovesOnlyThatEntry ==
    [][\A label \in Labels, id \in IndexKeys :
          (Removed(label, id) /\ id \in DOMAIN node_keys)
          => /\ id \notin DOMAIN node_keys'
             /\ \A k \in DOMAIN node_keys \ {id} :
                   k \in DOMAIN node_keys' /\ node_keys'[k] = node_keys[k]
       ]_vars

\* The frame half of C23 taken alone: the entries of the nodes other than
\* the one named stay.
C23_OtherEntriesKept ==
    [][\A label \in Labels, id \in IndexKeys :
          Removed(label, id)
          => \A k \in DOMAIN node_keys \ {id} :
                k \in DOMAIN node_keys' /\ node_keys'[k] = node_keys[k]
       ]_vars

\* The step is a call of clear
Cleared ==
    /\ Len(ecalls') = Len(ecalls) + 1
    /\ ecalls'[Len(ecalls')].op = "clear"

\* C24: Graph.clear() from any reachable state completes and leaves every
\* structure empty: node keys, nodes, edge keys, related maps, edge counts
\* and the released ids, so that no type has a count and the set of edge
\* types is empty.
C24_ClearEmptiesAll ==
    [][Cleared
       => /\ ecalls'[Len(ecalls')].outcome = "None"
          /\ node_keys' = <<>>
          /\ nodes' = <<>>
          /\ edge_keys' = <<>>
          /\ related' = {}
          /\ edge_counts' = <<>>
          /\ deleted_nodes' = <<>>]_vars

\* C24 without the completion: the structures are empty after the call.
C24_ClearLeavesAllEmpty ==
    [][Cleared
       => /\ node_keys' = <<>>
          /\ nodes' = <<>>
          /\ edge_keys' = <<>>
          /\ related' = {}
          /\ edge_counts' = <<>>
          /\ deleted_nodes' = <<>>]_vars

====
